---- MODULE Spec2Model ----
(***************************************************************************)
(* fastapi_user_auth/utils.py: the permission codec, the option-tree       *)
(* filter and the casbin policy reconcilers, as state machines.            *)
(*                                                                         *)
(* A Python str is a sequence of one-character strings, so that join,      *)
(* strip, split and replace are computed character by character.           *)
(* A casbin rule is a sequence of such strings.                            *)
(***************************************************************************)
EXTENDS Integers, Sequences, FiniteSets, TLC

VARIABLES
    p,        \* enforcer: the policy rules of section "p"
    g,        \* enforcer: the role edges of namespace "g"
    g2,       \* enforcer: the resource edges of namespace "g2"
    site,     \* the admin hierarchy handed to casbin_update_site_grouping
    last,     \* the handler called last: its arguments, locals, calls and place (pc)
    codec,    \* the codec's arguments and results
    opts,     \* the heap of option dicts and lists, and filter_options' run on it
    conc,     \* the concurrent calls of a handler, each at one of its awaits
    menu      \* the lru_cache of get_admin_action_options and the last call

vars == <<p, g, g2, site, last, codec, opts, conc, menu>>

(* ------------------------------ bounds --------------------------------- *)

\* Longest field string of the codec's inputs.
MaxLen == 2
\* Most fields handed to casbin_permission_encode.
MaxFields == 3
\* Most entries (rules and edges) of the store before the first handler runs.
MaxStored == 2
\* Longest role_keys string handed to casbin_update_subject_roles.
MaxRoleLen == 4
\* Most rows of a field policy matrix.
MaxRows == 2
\* Most nodes of an option tree handed to filter_options.
MaxNodes == 4

(* ------------------------------ strings -------------------------------- *)

\* Python's None among field values.
None == <<"None">>

Hash == "#"
Comma == ","

\* The sequences over S of length at most n.
SeqUpTo(S, n) == UNION {[1..k -> S] : k \in 0..n}

\* The list as a set.
ToSet(seq) == {seq[i] : i \in DOMAIN seq}

RECURSIVE Join(_, _)
\* sep.join(parts)
Join(parts, sep) ==
    IF parts = <<>> THEN <<>>
    ELSE IF Len(parts) = 1 THEN Head(parts)
    ELSE Head(parts) \o <<sep>> \o Join(Tail(parts), sep)

RECURSIVE LStrip(_, _)
LStrip(s, c) == IF s # <<>> /\ Head(s) = c THEN LStrip(Tail(s), c) ELSE s

RECURSIVE RStrip(_, _)
RStrip(s, c) ==
    IF s # <<>> /\ s[Len(s)] = c THEN RStrip(SubSeq(s, 1, Len(s) - 1), c) ELSE s

\* s.strip(c) for a one-character c
Strip(s, c) == RStrip(LStrip(s, c), c)

RECURSIVE Split(_, _)
\* s.split(c) for a one-character c: always at least one item
Split(s, c) ==
    IF \E i \in 1..Len(s) : s[i] = c
    THEN LET i == CHOOSE j \in 1..Len(s) :
                      s[j] = c /\ \A k \in 1..(j - 1) : s[k] # c
         IN <<SubSeq(s, 1, i - 1)>> \o Split(SubSeq(s, i + 1, Len(s)), c)
    ELSE <<s>>

\* s starts with the string pre
StartsWith(s, pre) == Len(s) >= Len(pre) /\ SubSeq(s, 1, Len(pre)) = pre

RECURSIVE Replace(_, _, _)
\* s.replace(old, new) for a non-empty old: leftmost occurrences, not overlapping
Replace(s, old, new) ==
    IF s = <<>> THEN <<>>
    ELSE IF StartsWith(s, old)
         THEN new \o Replace(SubSeq(s, Len(old) + 1, Len(s)), old, new)
         ELSE <<Head(s)>> \o Replace(Tail(s), old, new)

(* --------------------------- string constants -------------------------- *)

\* "page", the domain field of a page-level rule
Page == <<"p", "a", "g", "e">>
\* "admin:" and "page:", the old and the new action-namespace prefix
AdminPrefix == <<"a", "d", "m", "i", "n", ":">>
PagePrefix == <<"p", "a", "g", "e", ":">>
\* the effects of a rule
Allow == <<"a", "l", "l", "o", "w">>
Deny == <<"d", "e", "n", "y">>
\* "r:", the prefix of a role subject
RolePrefix == <<"r", ":">>
\* the subjects of the model: a user and a role
UserX == <<"u", ":", "x">>
RoleA == <<"r", ":", "a">>
Subjects == {UserX, RoleA}

(* ------------------------------- codec --------------------------------- *)

\* An encoder that leaves out every empty value, not only None.
casbin_permission_encode_truthy(field_values) ==
    Join(SelectSeq(field_values, LAMBDA val : val # None /\ val # <<>>), Hash)

\* "#".join(val for val in field_values if val is not None)
casbin_permission_encode(field_values) ==
    Join(SelectSeq(field_values, LAMBDA val : val # None), Hash)

\* permission.strip("#").split("#")
casbin_permission_decode(permission) == Split(Strip(permission, Hash), Hash)

(* ------------------------- the enforcer's store ------------------------ *)

\* The subsets of S with at most n elements.
SubsetsUpTo(S, n) == {T \in SUBSET S : Cardinality(T) <= n}

\* enforcer.get_filtered_policy(field_index, *field_values): the rules whose
\* fields from field_index on equal the non-empty field values.
get_filtered_policy(policy, field_index, field_values) ==
    {rule \in policy :
        \A i \in 1..Len(field_values) :
            \/ field_values[i] = <<>>
            \/ /\ field_index + i <= Len(rule)
               /\ rule[field_index + i] = field_values[i]}

\* enforcer.remove_filtered_policy(field_index, *field_values)
remove_filtered_policy(policy, field_index, field_values) ==
    policy \ get_filtered_policy(policy, field_index, field_values)

\* enforcer.add_policies(rules), add_grouping_policies,
\* add_named_grouping_policies: the store is a set.
add_policies(policy, rules) == policy \cup rules

\* enforcer.remove_policies(rules), remove_named_grouping_policies: the batch
\* fails, removing nothing, when one of its rules is not in the store.
remove_policies(policy, rules) ==
    IF rules \subseteq policy THEN policy \ rules ELSE policy

\* enforcer.delete_roles_for_user(subject)
delete_roles_for_user(roles, subject) ==
    roles \ get_filtered_policy(roles, 0, <<subject>>)

\* One write call issued against the store.
Call(api, rules) == [api |-> api, rules |-> rules]

NoOp == [op |-> "none", pc |-> "done", args |-> <<>>, calls |-> <<>>]
NoCodec == [pc |-> "idle", fields |-> <<>>, encoded |-> <<>>, decoded |-> <<>>]
NoSite == [root |-> 0, nodes |-> <<>>]
NoOpts == [pc |-> "none"]
NoConc == [store |-> {}, calls |-> <<>>]
NoMenu == [op |-> "none"]

(* ------------------ casbin_update_subject_permissions ------------------ *)

\* The old rules of a handler that reads the subject's rules of any domain.
PermOldRulesAnyDomain(policy, subject) == get_filtered_policy(policy, 0, <<subject>>)

\* old_rules = {tuple(i) for i in get_filtered_policy(0, subject, "", "", "page")}
PermOldRules(policy, subject) ==
    get_filtered_policy(policy, 0, <<subject, <<>>, <<>>, Page>>)

\* new_rules: (subject, *decode(permission), "allow") of every permission
PermNewRules(subject, permissions) ==
    {<<subject>> \o casbin_permission_decode(permissions[i]) \o <<Allow>> :
        i \in DOMAIN permissions}

\* A difference that compares rules without their last field, the effect.
RemoveRulesByKey(old_rules, new_rules) ==
    {r \in old_rules :
        \A n \in new_rules : SubSeq(r, 1, Len(r) - 1) # SubSeq(n, 1, Len(n) - 1)}

\* remove_rules = old_rules - new_rules
RemoveRules(old_rules, new_rules) == old_rules \ new_rules

\* A handler that adds nothing.
AddRulesNone(old_rules, new_rules) == {}

\* add_rules = new_rules - old_rules
AddRules(old_rules, new_rules) == new_rules \ old_rules

\* The handler's place after a step: "remove" and "add" are the awaits of the
\* two write calls still to come, "done" is the return.

\* A handler that issues add_policies whatever the batch holds.
AfterRemoveAlways(add_rules) == "add"

\* if add_rules: await enforcer.add_policies(add_rules)
AfterRemove(add_rules) == IF add_rules # {} THEN "add" ELSE "done"

\* A handler that skips the removal.
AfterReadNoRemove(remove_rules, add_rules) == AfterRemove(add_rules)

\* if remove_rules: await enforcer.remove_policies(remove_rules)
AfterRead(remove_rules, add_rules) ==
    IF remove_rules # {} THEN "remove" ELSE AfterRemove(add_rules)

\* The resource and the page-level permission keys of the model.
ResA == <<"A">>
ResB == <<"B">>
KeyAdminV == casbin_permission_encode(<<ResA, AdminPrefix \o <<"v">>, Page>>)
KeyPageV == casbin_permission_encode(<<ResA, PagePrefix \o <<"v">>, Page>>)
PageKeys == {KeyAdminV, KeyPageV}
\* a field-level key under (A, page:v)
KeyFieldF == casbin_permission_encode(<<ResA, PagePrefix \o <<"v">>, <<"f">>>>)

\* The permission lists handed to the reconciler: of at most two page keys,
\* a repeated key included.
PermissionLists ==
    {<<>>} \cup {<<k>> : k \in PageKeys} \cup {<<k, l>> : k, l \in PageKeys}

\* The handler is the same call as the last one, and then the write calls
\* that one issued.
Repeats(op, args) == last.op = op /\ last.args = args
FirstCalls(op, args) == IF Repeats(op, args) THEN last.calls ELSE <<>>

\* The call and its first await, enforcer.get_filtered_policy: the old rules
\* are read and the two batches computed from them.
ReadSubjectPermissions ==
    /\ last.pc = "done"
    /\ \E subject \in Subjects, permissions \in PermissionLists :
        LET old_rules == PermOldRules(p, subject)
            new_rules == PermNewRules(subject, permissions)
            remove_rules == RemoveRules(old_rules, new_rules)
            add_rules == AddRules(old_rules, new_rules)
        IN last' = [op |-> "update_subject_permissions",
                    pc |-> AfterRead(remove_rules, add_rules),
                    args |-> <<subject, permissions>>,
                    old |-> old_rules,
                    remove_rules |-> remove_rules,
                    add_rules |-> add_rules,
                    calls |-> <<>>,
                    repeat |-> Repeats("update_subject_permissions",
                                       <<subject, permissions>>),
                    first_calls |-> FirstCalls("update_subject_permissions",
                                               <<subject, permissions>>)]
    /\ UNCHANGED <<p, g, g2, site, codec, opts, conc, menu>>

\* The second await: enforcer.remove_policies(remove_rules).
RemoveSubjectPermissions ==
    /\ last.op = "update_subject_permissions"
    /\ last.pc = "remove"
    /\ p' = remove_policies(p, last.remove_rules)
    /\ last' = [last EXCEPT !.pc = AfterRemove(last.add_rules),
                            !.calls = Append(@, Call("remove_policies",
                                                     last.remove_rules))]
    /\ UNCHANGED <<g, g2, site, codec, opts, conc, menu>>

\* The third await: enforcer.add_policies(add_rules).
AddSubjectPermissions ==
    /\ last.op = "update_subject_permissions"
    /\ last.pc = "add"
    /\ p' = add_policies(p, last.add_rules)
    /\ last' = [last EXCEPT !.pc = "done",
                            !.calls = Append(@, Call("add_policies",
                                                     last.add_rules))]
    /\ UNCHANGED <<g, g2, site, codec, opts, conc, menu>>

(* --------------------- casbin_update_subject_roles --------------------- *)

\* The new_roles of a handler that keeps the edge of a subject to itself.
RolesNewRolesWithSelf(subject, role_keys) ==
    {<<subject, RolePrefix \o role>> :
        role \in {r \in ToSet(Split(role_keys, Comma)) : r # <<>>}}

\* new_roles = {(subject, f"r:{role}") for role in role_keys.split(",")
\*              if role and f"r:{role}" != subject}
RolesNewRoles(subject, role_keys) ==
    {<<subject, RolePrefix \o role>> :
        role \in {r \in ToSet(Split(role_keys, Comma)) :
                     r # <<>> /\ RolePrefix \o r # subject}}

\* A handler that clears nothing.
RolesKept(roles, subject) == roles

\* await enforcer.delete_roles_for_user(subject)
RolesDeleted(roles, subject) == delete_roles_for_user(roles, subject)

\* if new_roles: await enforcer.add_grouping_policies(new_roles)
RolesAfterDelete(new_roles) == IF new_roles # {} THEN "add" ELSE "done"

\* The role_keys strings: role names of the letter a, separated by commas.
RoleChars == {"a", Comma}
RoleKeys == SeqUpTo(RoleChars, MaxRoleLen)

\* The call, new_roles computed from its arguments, and its first await:
\* enforcer.delete_roles_for_user(subject).
DeleteSubjectRoles ==
    /\ last.pc = "done"
    /\ \E subject \in Subjects, role_keys \in RoleKeys :
        LET new_roles == RolesNewRoles(subject, role_keys)
        IN /\ g' = RolesDeleted(g, subject)
           /\ last' = [op |-> "update_subject_roles",
                       pc |-> RolesAfterDelete(new_roles),
                       args |-> <<subject, role_keys>>,
                       old |-> get_filtered_policy(g, 0, <<subject>>),
                       new_roles |-> new_roles,
                       calls |-> <<Call("delete_roles_for_user", {<<subject>>})>>]
    /\ UNCHANGED <<p, g2, site, codec, opts, conc, menu>>

\* The second await: enforcer.add_grouping_policies(new_roles).
AddSubjectRoles ==
    /\ last.op = "update_subject_roles"
    /\ last.pc = "add"
    /\ g' = add_policies(g, last.new_roles)
    /\ last' = [last EXCEPT !.pc = "done",
                            !.calls = Append(@, Call("add_grouping_policies",
                                                     last.new_roles))]
    /\ UNCHANGED <<p, g2, site, codec, opts, conc, menu>>

(* ---------------- casbin_get_subject_field_policy_matrix --------------- *)

\* The filter of a handler that leaves "admin:" in v2 as it is.
FieldFilterNoRewrite(subject, permission) ==
    LET v == casbin_permission_decode(permission)
    IN <<subject, v[1], v[2], <<>>, <<>>>>

\* v1, v2, v3 = casbin_permission_decode(permission)
\* v2 = v2.replace("admin:", "page:")
\* get_filtered_policy / remove_filtered_policy (0, subject, v1, v2, "", "")
FieldFilter(subject, permission) ==
    LET v == casbin_permission_decode(permission)
    IN <<subject, v[1], Replace(v[2], AdminPrefix, PagePrefix), <<>>, <<>>>>

\* the perm of a stored rule: casbin_permission_encode(*rule[1:-1])
RulePerm(rule) == casbin_permission_encode(SubSeq(rule, 2, Len(rule) - 1))

\* allow_rule: the perms of the rules whose effect is "allow"
AllowRule(rules) == {RulePerm(rule) : rule \in {r \in rules : r[Len(r)] = Allow}}

\* A read path that takes no rule for a deny rule.
DenyRuleNone(rules) == {}

\* deny_rule: the perms of the other rules
DenyRule(rules) == {RulePerm(rule) : rule \in {r \in rules : r[Len(r)] # Allow}}


\* {"checked": checked, **row}: the row's own fields come last and win
CheckedItem(checked, row) == row @@ [checked |-> checked]

\* The loop body of the read path: the row's items of the three lists.
\* allow_item = deny_item = default_item = {"checked": False, **row}, then
\* the one of the branch taken is {"checked": True, **row}.
RowItems(row, allow_rule, deny_rule) ==
    LET perm == row.rol
        branch == IF perm \in allow_rule THEN "allow"
                  ELSE IF perm \in deny_rule THEN "deny"
                  ELSE "default"
    IN [default |-> CheckedItem(branch = "default", row),
        allow |-> CheckedItem(branch = "allow", row),
        deny |-> CheckedItem(branch = "deny", row)]

\* return [default_, allow_, deny_]
FieldPolicyMatrix(policy, subject, permission, rows) ==
    LET rules == get_filtered_policy(policy, 0, FieldFilter(subject, permission))
        allow_rule == AllowRule(rules)
        deny_rule == DenyRule(rules)
    IN <<[i \in DOMAIN rows |-> RowItems(rows[i], allow_rule, deny_rule).default],
         [i \in DOMAIN rows |-> RowItems(rows[i], allow_rule, deny_rule).allow],
         [i \in DOMAIN rows |-> RowItems(rows[i], allow_rule, deny_rule).deny]>>

\* The field-level keys of the rows: two under (A, page:v), one under
\* (B, page:v).
KeyFieldB == casbin_permission_encode(<<ResB, PagePrefix \o <<"v">>, <<"f">>>>)
KeyFieldG == casbin_permission_encode(<<ResA, PagePrefix \o <<"v">>, <<"g">>>>)
FieldRowKeys == {KeyFieldF, KeyFieldG, KeyFieldB}

\* The row records handed to the read path: with a rol, and with or without
\* a checked field of their own.
RowDicts ==
    {[rol |-> k] : k \in FieldRowKeys}
    \cup {[rol |-> k, checked |-> c] : k \in FieldRowKeys, c \in BOOLEAN}

\* No handler has run yet.
Fresh == last.op = "none"

\* The read path, called on the store as it was found.
GetSubjectFieldPolicyMatrix ==
    /\ Fresh
    /\ \E subject \in Subjects, permission \in PageKeys,
          rows \in SeqUpTo(RowDicts, MaxRows) :
        last' = [op |-> "get_subject_field_policy_matrix",
                 pc |-> "done",
                 args |-> <<subject, permission, rows>>,
                 result |-> FieldPolicyMatrix(p, subject, permission, rows),
                 calls |-> <<>>,
                 wrote |-> <<>>]
    /\ UNCHANGED <<p, g, g2, site, codec, opts, conc, menu>>

(* --------------- casbin_update_subject_field_permissions --------------- *)

\* if not field_policy_matrix: return
NoMatrix(field_policy_matrix) == field_policy_matrix \in {None, <<>>}

\* The rules of the checked items of a list, with an effect:
\* {(subject, *casbin_permission_decode(item["rol"]), effect)
\*      for item in items if item["checked"]}
CheckedRules(subject, items, effect) ==
    {<<subject>> \o casbin_permission_decode(items[i].rol) \o <<effect>> :
        i \in {j \in DOMAIN items : items[j].checked}}

\* add_rules = allow_rules | deny_rules, of remove_, allow_, deny_ = matrix
FieldAddRules(subject, field_policy_matrix) ==
    CheckedRules(subject, field_policy_matrix[2], Allow)
    \cup CheckedRules(subject, field_policy_matrix[3], Deny)

\* The removal that spares the page-level rules.
FieldRemovedNoPage(policy, subject, permission) ==
    policy \ {r \in get_filtered_policy(policy, 0, FieldFilter(subject, permission)) :
                 r[4] # Page}

\* await enforcer.remove_filtered_policy(0, subject, v1, v2, "", "")
FieldRemoved(policy, subject, permission) ==
    remove_filtered_policy(policy, 0, FieldFilter(subject, permission))

\* if add_rules: await enforcer.add_policies(add_rules)
FieldAfterRemove(add_rules) == IF add_rules # {} THEN "add" ELSE "done"

\* The column a row of an edited matrix is checked in: one of the three, or
\* the allow and the deny column at once.
Columns == {"default", "allow", "deny", "both"}

\* The matrix of the rows with the keys rows, checked in the columns cols.
MatrixOf(rows, cols) ==
    <<[i \in DOMAIN rows |-> [rol |-> rows[i], checked |-> cols[i] = "default"]],
      [i \in DOMAIN rows |-> [rol |-> rows[i], checked |-> cols[i] \in {"allow", "both"}]],
      [i \in DOMAIN rows |-> [rol |-> rows[i], checked |-> cols[i] \in {"deny", "both"}]]>>

\* The matrices handed to the write path: none, the empty list, or three
\* lists over the same rows.
Matrices ==
    {None, <<>>}
    \cup UNION {{MatrixOf(rows, cols) : cols \in [DOMAIN rows -> Columns]} :
                   rows \in SeqUpTo(FieldRowKeys, MaxRows)}

\* The write path called on the store as it was found: it returns at once
\* without a matrix, and else goes to its first await,
\* enforcer.remove_filtered_policy.
RemoveSubjectFieldPermissions ==
    /\ Fresh
    /\ \E subject \in Subjects, permission \in PageKeys,
          field_policy_matrix \in Matrices :
        IF NoMatrix(field_policy_matrix)
        THEN /\ p' = p
             /\ last' = [op |-> "update_subject_field_permissions",
                         pc |-> "done",
                         args |-> <<subject, permission, field_policy_matrix>>,
                         before |-> p,
                         add_rules |-> {},
                         calls |-> <<>>]
        ELSE LET add_rules == FieldAddRules(subject, field_policy_matrix)
             IN /\ p' = FieldRemoved(p, subject, permission)
                /\ last' = [op |-> "update_subject_field_permissions",
                            pc |-> FieldAfterRemove(add_rules),
                            args |-> <<subject, permission, field_policy_matrix>>,
                            before |-> p,
                            add_rules |-> add_rules,
                            calls |-> <<Call("remove_filtered_policy",
                                             {FieldFilter(subject, permission)})>>]
    /\ UNCHANGED <<g, g2, site, codec, opts, conc, menu>>

\* The second await: enforcer.add_policies(add_rules).
AddSubjectFieldPermissions ==
    /\ last.op = "update_subject_field_permissions"
    /\ last.pc = "add"
    /\ p' = add_policies(p, last.add_rules)
    /\ last' = [last EXCEPT !.pc = "done",
                            !.calls = Append(@, Call("add_policies", last.add_rules))]
    /\ UNCHANGED <<g, g2, site, codec, opts, conc, menu>>

\* The read path, called right after the write path for the same subject and
\* permission and the rows of the matrix written.
GetWrittenFieldPolicyMatrix ==
    /\ last.op = "update_subject_field_permissions"
    /\ last.pc = "done"
    /\ ~NoMatrix(last.args[3])
    /\ LET subject == last.args[1]
           permission == last.args[2]
           rows == [i \in DOMAIN last.args[3][1] |-> [rol |-> last.args[3][1][i].rol]]
       IN last' = [op |-> "get_subject_field_policy_matrix",
                   pc |-> "done",
                   args |-> <<subject, permission, rows>>,
                   result |-> FieldPolicyMatrix(p, subject, permission, rows),
                   calls |-> <<>>,
                   wrote |-> last.args[3],
                   before |-> last.before]
    /\ UNCHANGED <<p, g, g2, site, codec, opts, conc, menu>>

(* ----------------------- get_admin_grouping ---------------------------- *)

\* An admin of the hierarchy: its unique_id, the node that is its app, its
\* kind ("page", "group": an AdminGroup, "app": an AdminApp) and, when it is
\* a group or an app, the nodes it iterates over.
Admin(unique_id, app, kind, children) ==
    [unique_id |-> unique_id, app |-> app, kind |-> kind, children |-> children]

IsAdminGroup(admin) == admin.kind \in {"group", "app"}

RECURSIVE GroupingOf(_, _)
\* The loop of get_admin_grouping over the admins left of a group.
GroupingOf(nodes, admins) ==
    IF admins = <<>> THEN <<>>
    ELSE LET a == Head(admins)
             admin == nodes[a]
         IN (IF admin.app = a
             THEN <<>>
             ELSE << <<nodes[admin.app].unique_id, admin.unique_id>> >>
                  \o (IF IsAdminGroup(admin)
                      THEN GroupingOf(nodes, admin.children)
                      ELSE <<>>))
            \o GroupingOf(nodes, Tail(admins))

\* The edges of the group's own admins, without the sub-groups'.
get_admin_grouping_flat(tree, group) ==
    LET admins == tree.nodes[group].children
        own == SelectSeq(admins, LAMBDA a : tree.nodes[a].app # a)
    IN [i \in DOMAIN own |->
            <<tree.nodes[tree.nodes[own[i]].app].unique_id, tree.nodes[own[i]].unique_id>>]

get_admin_grouping(tree, group) == GroupingOf(tree.nodes, tree.nodes[group].children)

(* -------------------- casbin_update_site_grouping ---------------------- *)

\* old_roles = {tuple(role) for role in get_filtered_named_grouping_policy("g2", 0)}
SiteOldRoles(edges) == get_filtered_policy(edges, 0, <<>>)

\* new_roles = set(get_admin_grouping(site))
SiteNewRoles(tree) == ToSet(get_admin_grouping(tree, tree.root))

\* if add_roles: await enforcer.add_named_grouping_policies("g2", add_roles)
SiteAfterRemove(add_roles) == IF add_roles # {} THEN "add" ELSE "done"

\* if remove_roles: await enforcer.remove_named_grouping_policies("g2", ...)
SiteAfterRead(remove_roles, add_roles) ==
    IF remove_roles # {} THEN "remove" ELSE SiteAfterRemove(add_roles)

\* The call and its first await, enforcer.get_filtered_named_grouping_policy:
\* the stored edges are read, the hierarchy is walked, the batches computed.
ReadSiteGrouping ==
    /\ last.pc = "done"
    /\ LET old_roles == SiteOldRoles(g2)
           new_roles == SiteNewRoles(site)
           remove_roles == RemoveRules(old_roles, new_roles)
           add_roles == AddRules(old_roles, new_roles)
       IN last' = [op |-> "update_site_grouping",
                   pc |-> SiteAfterRead(remove_roles, add_roles),
                   args |-> <<>>,
                   old |-> old_roles,
                   remove_rules |-> remove_roles,
                   add_rules |-> add_roles,
                   calls |-> <<>>,
                   repeat |-> Repeats("update_site_grouping", <<>>),
                   first_calls |-> FirstCalls("update_site_grouping", <<>>)]
    /\ UNCHANGED <<p, g, g2, site, codec, opts, conc, menu>>

\* The second await: enforcer.remove_named_grouping_policies("g2", remove_roles).
RemoveSiteGrouping ==
    /\ last.op = "update_site_grouping"
    /\ last.pc = "remove"
    /\ g2' = remove_policies(g2, last.remove_rules)
    /\ last' = [last EXCEPT !.pc = SiteAfterRemove(last.add_rules),
                            !.calls = Append(@, Call("remove_named_grouping_policies",
                                                     last.remove_rules))]
    /\ UNCHANGED <<p, g, site, codec, opts, conc, menu>>

\* The third await: enforcer.add_named_grouping_policies("g2", add_roles).
AddSiteGrouping ==
    /\ last.op = "update_site_grouping"
    /\ last.pc = "add"
    /\ g2' = add_policies(g2, last.add_rules)
    /\ last' = [last EXCEPT !.pc = "done",
                            !.calls = Append(@, Call("add_named_grouping_policies",
                                                     last.add_rules))]
    /\ UNCHANGED <<p, g, site, codec, opts, conc, menu>>

(* ------------------------- the admin hierarchies ----------------------- *)

SiteId == <<"S">>
AppId == <<"P">>
GroupId == <<"G">>

\* the site alone
SiteEmpty == [root |-> 1, nodes |-> <<Admin(SiteId, 1, "app", <<>>)>>]
\* the site with page A and a plain group G, which holds the sub-application
\* P, which owns page B
SiteNested ==
    [root |-> 1,
     nodes |-> <<Admin(SiteId, 1, "app", <<2, 3>>),
                 Admin(ResA, 1, "page", <<>>),
                 Admin(GroupId, 1, "group", <<4>>),
                 Admin(AppId, 1, "app", <<5>>),
                 Admin(ResB, 4, "page", <<>>)>>]
\* the site with an application P that is its own app and holds page B, and
\* page A after it
SiteOwnApp ==
    [root |-> 1,
     nodes |-> <<Admin(SiteId, 1, "app", <<2, 4>>),
                 Admin(AppId, 2, "app", <<3>>),
                 Admin(ResB, 2, "page", <<>>),
                 Admin(ResA, 1, "page", <<>>)>>]
Sites == {SiteEmpty, SiteNested, SiteOwnApp}

(* --------------------------- initial stores ---------------------------- *)

\* The rule of a subject for a permission key, with an effect.
Rule(subject, key, effect) == <<subject>> \o casbin_permission_decode(key) \o <<effect>>

\* The rules a store may hold before the first handler runs: page rules that
\* allow and that deny, a field rule of the same subject, a rule of another.
RuleUniverse ==
    {Rule(UserX, KeyAdminV, Allow), Rule(UserX, KeyAdminV, Deny),
     Rule(UserX, KeyPageV, Allow), Rule(UserX, KeyFieldF, Allow),
     Rule(RoleA, KeyAdminV, Allow), Rule(RoleA, KeyPageV, Deny),
     Rule(RoleA, KeyFieldF, Deny)}
\* The role edges it may hold: of the user and of the role, to roles the
\* role_keys strings can name and to one they cannot.
RoleB == <<"r", ":", "b">>
RoleAA == <<"r", ":", "a", "a">>
RoleUniverse == {<<UserX, RoleA>>, <<UserX, RoleB>>, <<UserX, RoleAA>>, <<RoleA, RoleB>>}
\* The role edges of the stores whose roles no handler changes.
SomeRoles == {<<UserX, RoleA>>, <<UserX, RoleB>>}
\* The rules of the stores whose rules no handler changes.
SomeRules == {Rule(UserX, KeyAdminV, Allow), Rule(RoleA, KeyFieldF, Deny)}
\* The resource edges it may hold: right for some hierarchy, or for none.
EdgeUniverse == {<<SiteId, ResA>>, <<AppId, ResB>>, <<ResB, ResA>>}

Tag(tag, S) == {<<tag, x>> : x \in S}
Untag(tag, T) == {e[2] : e \in {x \in T : x[1] = tag}}

\* Init: any store of at most MaxStored rules and resource edges, any hierarchy.
Init ==
    /\ \E entries \in SubsetsUpTo(Tag("p", RuleUniverse) \cup Tag("g2", EdgeUniverse),
                                  MaxStored) :
        /\ p = Untag("p", entries)
        /\ g2 = Untag("g2", entries)
    /\ g = SomeRoles
    /\ site \in Sites
    /\ last = NoOp
    /\ codec = NoCodec
    /\ opts = NoOpts
    /\ conc = NoConc
    /\ menu = NoMenu

Next ==
    \/ ReadSubjectPermissions
    \/ RemoveSubjectPermissions
    \/ AddSubjectPermissions
    \/ ReadSiteGrouping
    \/ RemoveSiteGrouping
    \/ AddSiteGrouping

Spec == Init /\ [][Next]_vars

\* The rules a store may hold before the first field handler runs: field
\* rules under (A, page:v) and under (B, page:v), page rules with the action
\* page:v and admin:v, and a rule of another subject.
FieldRuleUniverse ==
    {Rule(UserX, KeyFieldF, Allow), Rule(UserX, KeyFieldF, Deny),
     Rule(UserX, KeyFieldB, Allow), Rule(UserX, KeyPageV, Allow),
     Rule(UserX, KeyAdminV, Allow), Rule(RoleA, KeyFieldF, Allow)}

\* FieldInit: any store of at most MaxStored of these rules.
FieldInit ==
    /\ p \in SubsetsUpTo(FieldRuleUniverse, MaxStored)
    /\ g = SomeRoles
    /\ g2 = {<<SiteId, ResA>>}
    /\ site = SiteEmpty
    /\ last = NoOp
    /\ codec = NoCodec
    /\ opts = NoOpts
    /\ conc = NoConc
    /\ menu = NoMenu

FieldNext ==
    \/ GetSubjectFieldPolicyMatrix
    \/ RemoveSubjectFieldPermissions
    \/ AddSubjectFieldPermissions
    \/ GetWrittenFieldPolicyMatrix

SpecField == FieldInit /\ [][FieldNext]_vars

\* RolesInit: any role edges, at most MaxStored of them.
RolesInit ==
    /\ g \in SubsetsUpTo(RoleUniverse, MaxStored)
    /\ p = SomeRules
    /\ g2 = {<<SiteId, ResA>>}
    /\ site = SiteEmpty
    /\ last = NoOp
    /\ codec = NoCodec
    /\ opts = NoOpts
    /\ conc = NoConc
    /\ menu = NoMenu

RolesNext == DeleteSubjectRoles \/ AddSubjectRoles

SpecRoles == RolesInit /\ [][RolesNext]_vars

(* ------------------------------ the codec ------------------------------ *)

\* The characters of the codec's input fields.
CodecChars == {"a", Hash}
\* The field values handed to the codec: strings, or None.
CodecFields == SeqUpTo(CodecChars, MaxLen) \cup {None}

\* A caller picks the fields to encode.
CodecInit ==
    /\ codec \in {[pc |-> "start", fields |-> f, encoded |-> <<>>, decoded |-> <<>>] :
                    f \in SeqUpTo(CodecFields, MaxFields)}
    /\ p = {} /\ g = {} /\ g2 = {}
    /\ site = NoSite
    /\ last = NoOp
    /\ opts = NoOpts
    /\ conc = NoConc
    /\ menu = NoMenu

Encode ==
    /\ codec.pc = "start"
    /\ codec' = [codec EXCEPT !.pc = "encoded",
                              !.encoded = casbin_permission_encode(codec.fields)]
    /\ UNCHANGED <<p, g, g2, site, last, opts, conc, menu>>

Decode ==
    /\ codec.pc = "encoded"
    /\ codec' = [codec EXCEPT !.pc = "decoded",
                              !.decoded = casbin_permission_decode(codec.encoded)]
    /\ UNCHANGED <<p, g, g2, site, last, opts, conc, menu>>

CodecNext == Encode \/ Decode

SpecCodec == CodecInit /\ [][CodecNext]_vars

(* ---------------------------- filter_options --------------------------- *)

\* The heap of Python objects: an address maps to an option dict or to a
\* list of option dicts.  A dict holds its "value" and the address of its
\* "children" list, NoChildren when it has no such key.
NoChildren == 0
Dict(value, children) == [kind |-> "dict", value |-> value, children |-> children]
List(items) == [kind |-> "list", items |-> items]

\* the address of a newly created object
NewAddr(heap) ==
    IF DOMAIN heap = {} THEN 1
    ELSE (CHOOSE a \in DOMAIN heap : \A b \in DOMAIN heap : b <= a) + 1

\* copy(option): a new dict with the same items, the children list shared
copy(heap, option) == heap[option]

\* filter_func(option): the caller's predicate, here on the option's value
filter_func(accept, option) == option.value \in accept

\* a filter that never descends into the children
ChildrenNever(heap, option) == FALSE

\* option.get("children") is false for a missing key and for an empty list
ChildrenTruthy(heap, option) ==
    /\ heap[option].children # NoChildren
    /\ heap[heap[option].children].items # <<>>

\* A filter that drops the rejected options from the list it is handed.
filter_options_in_place(heap, options, accept) ==
    [heap |-> [heap EXCEPT ![options].items =
                  SelectSeq(@, LAMBDA o : filter_func(accept, heap[o]))],
     result |-> options]

RECURSIVE filter_options(_, _, _)
RECURSIVE FilterLoop(_, _, _, _)

\* The loop over the options still to visit: heap is the heap so far, result
\* the address of the result list.
FilterLoop(heap, todo, accept, result) ==
    IF todo = <<>> THEN [heap |-> heap, result |-> result]
    ELSE IF ~filter_func(accept, heap[Head(todo)])
         THEN FilterLoop(heap, Tail(todo), accept, result)
         ELSE LET option == NewAddr(heap)
                  copied == (option :> copy(heap, Head(todo))) @@ heap
                  sub == filter_options(copied, copied[option].children, accept)
                  filtered ==
                      IF ChildrenTruthy(copied, option)
                      THEN [sub.heap EXCEPT ![option].children = sub.result]
                      ELSE copied
                  appended ==
                      [filtered EXCEPT ![result].items = Append(@, option)]
              IN FilterLoop(appended, Tail(todo), accept, result)

\* filter_options(options, filter_func): options is the address of the list.
filter_options(heap, options, accept) ==
    LET result == NewAddr(heap)
    IN FilterLoop((result :> List(<<>>)) @@ heap, heap[options].items, accept, result)

\* An option tree is written down in preorder: each node with its depth, its
\* value and whether it has a "children" key.
KeyAdminB == casbin_permission_encode(<<ResB, AdminPrefix \o <<"v">>, Page>>)
OptionValues == {KeyAdminV, KeyAdminB}
OptionNodes == [depth : 0..(MaxNodes - 1), value : OptionValues, kids : BOOLEAN]

IsForest(src) ==
    /\ Len(src) > 0 => src[1].depth = 0
    /\ \A i \in 1..(Len(src) - 1) :
          /\ src[i + 1].depth <= src[i].depth + 1
          /\ src[i + 1].depth = src[i].depth + 1 => src[i].kids

\* the forests of at most n nodes, built node by node
RECURSIVE ForestsUpTo(_)
ForestsUpTo(n) ==
    IF n = 0 THEN {<<>>}
    ELSE LET shorter == ForestsUpTo(n - 1)
             longest == {src \in shorter : Len(src) = n - 1}
         IN shorter \cup
            {Append(e[1], e[2]) :
                e \in {f \in longest \X OptionNodes : IsForest(Append(f[1], f[2]))}}

OptionSources == ForestsUpTo(MaxNodes)

\* j is in the subtree of i
Below(src, i, j) ==
    /\ i < j
    /\ \A k \in (i + 1)..j : src[k].depth > src[i].depth

RECURSIVE Ascending(_)
Ascending(S) ==
    IF S = {} THEN <<>>
    ELSE LET m == CHOOSE a \in S : \A b \in S : a <= b
         IN <<m>> \o Ascending(S \ {m})

ChildrenOf(src, i) ==
    Ascending({j \in 1..Len(src) : Below(src, i, j) /\ src[j].depth = src[i].depth + 1})

RootsOf(src) == Ascending({j \in 1..Len(src) : src[j].depth = 0})

\* The heap that holds the tree: node i is the dict at address i, the top list
\* is at Len(src) + 1 and the children list of node i at Len(src) + 1 + i.
Build(src) ==
    LET n == Len(src)
        withList == {i \in 1..n : src[i].kids}
    IN [a \in (1..(n + 1)) \cup {n + 1 + i : i \in withList} |->
          IF a <= n
          THEN Dict(src[a].value, IF src[a].kids THEN n + 1 + a ELSE NoChildren)
          ELSE IF a = n + 1 THEN List(RootsOf(src))
          ELSE List(ChildrenOf(src, a - n - 1))]

\* The objects reachable from a list.
RECURSIVE Reach(_, _)
Reach(heap, list) ==
    {list} \cup
    UNION {{heap[list].items[i]} \cup
           (IF heap[heap[list].items[i]].children = NoChildren THEN {}
            ELSE Reach(heap, heap[heap[list].items[i]].children)) :
           i \in DOMAIN heap[list].items}

\* The tree under a list, read back in preorder.
RECURSIVE Preorder(_, _, _)
RECURSIVE PreorderItems(_, _, _)
PreorderItems(heap, items, depth) ==
    IF items = <<>> THEN <<>>
    ELSE LET option == heap[Head(items)]
         IN <<[depth |-> depth, value |-> option.value,
               kids |-> option.children # NoChildren]>>
            \o (IF option.children = NoChildren THEN <<>>
                ELSE Preorder(heap, option.children, depth + 1))
            \o PreorderItems(heap, Tail(items), depth)

Preorder(heap, list, depth) == PreorderItems(heap, heap[list].items, depth)

\* A caller holds an option tree and a predicate.
TreeInit ==
    /\ \E src \in OptionSources, accept \in SUBSET OptionValues :
          opts = [pc |-> "built", src |-> src, accept |-> accept,
                  heap |-> Build(src), options |-> Len(src) + 1,
                  result |-> 0, before |-> Build(src)]
    /\ p = {} /\ g = {} /\ g2 = {}
    /\ site = NoSite
    /\ last = NoOp
    /\ codec = NoCodec
    /\ conc = NoConc
    /\ menu = NoMenu

\* filter_options(options, filter_func)
FilterOptions ==
    /\ opts.pc = "built"
    /\ LET run == filter_options(opts.heap, opts.options, opts.accept)
       IN opts' = [opts EXCEPT !.pc = "filtered", !.heap = run.heap,
                               !.result = run.result, !.before = opts.heap]
    /\ UNCHANGED <<p, g, g2, site, last, codec, conc, menu>>

\* The caller changes the returned tree once: it sets a field of a node,
\* appends a node to a children list, or removes one from it.
NewValue == <<"z">>

SetOptionField ==
    /\ opts.pc = "filtered"
    /\ \E d \in Reach(opts.heap, opts.result) :
          /\ opts.heap[d].kind = "dict"
          /\ opts' = [opts EXCEPT !.pc = "mutated", !.heap[d].value = NewValue]
    /\ UNCHANGED <<p, g, g2, site, last, codec, conc, menu>>

AppendChild ==
    /\ opts.pc = "filtered"
    /\ \E l \in Reach(opts.heap, opts.result) :
          /\ opts.heap[l].kind = "list"
          /\ LET d == NewAddr(opts.heap)
                 heap == (d :> Dict(NewValue, NoChildren)) @@ opts.heap
             IN opts' = [opts EXCEPT !.pc = "mutated",
                            !.heap = [heap EXCEPT ![l].items = Append(@, d)]]
    /\ UNCHANGED <<p, g, g2, site, last, codec, conc, menu>>

RemoveChild ==
    /\ opts.pc = "filtered"
    /\ \E l \in Reach(opts.heap, opts.result) :
          /\ opts.heap[l].kind = "list"
          /\ \E i \in DOMAIN opts.heap[l].items :
                opts' = [opts EXCEPT !.pc = "mutated",
                            !.heap[l].items =
                                SubSeq(@, 1, i - 1) \o SubSeq(@, i + 1, Len(@))]
    /\ UNCHANGED <<p, g, g2, site, last, codec, conc, menu>>

TreeNext == FilterOptions \/ SetOptionField \/ AppendChild \/ RemoveChild

SpecTree == TreeInit /\ [][TreeNext]_vars

(* ------------ concurrent casbin_update_subject_permissions ------------- *)

\* Two coroutines each run casbin_update_subject_permissions once.  A
\* coroutine gives way at each await, so a step is one call on the store with
\* the code that follows it up to the next await; each call is atomic.
Callers == {1, 2}
Other(i) == 3 - i

\* A call that has not started: its arguments, and its locals still unset.
\* removed: the store as the remove batch left it.
\* saw: where the other call was when this one read the old rules.
NewCall(subject, permissions) ==
    [pc |-> "start", subject |-> subject, permissions |-> permissions,
     remove_rules |-> {}, add_rules |-> {}, removed |-> {}, saw |-> "none"]

ReadOldRules(i) ==
    /\ conc.calls[i].pc = "start"
    /\ LET c == conc.calls[i]
           old_rules == PermOldRules(p, c.subject)
           new_rules == PermNewRules(c.subject, c.permissions)
           remove_rules == RemoveRules(old_rules, new_rules)
           add_rules == AddRules(old_rules, new_rules)
       IN conc' = [conc EXCEPT !.calls[i] =
                     [c EXCEPT !.pc = AfterRead(remove_rules, add_rules),
                               !.remove_rules = remove_rules,
                               !.add_rules = add_rules,
                               !.saw = conc.calls[Other(i)].pc]]
    /\ UNCHANGED <<p, g, g2, site, last, codec, opts, menu>>

\* await enforcer.remove_policies([list(rule) for rule in remove_rules])
RemoveOldRules(i) ==
    /\ conc.calls[i].pc = "remove"
    /\ p' = remove_policies(p, conc.calls[i].remove_rules)
    /\ conc' = [conc EXCEPT !.calls[i].pc = AfterRemove(conc.calls[i].add_rules),
                            !.calls[i].removed = p']
    /\ UNCHANGED <<g, g2, site, last, codec, opts, menu>>

\* await enforcer.add_policies(add_rules)
AddNewRules(i) ==
    /\ conc.calls[i].pc = "add"
    /\ p' = add_policies(p, conc.calls[i].add_rules)
    /\ conc' = [conc EXCEPT !.calls[i].pc = "done"]
    /\ UNCHANGED <<g, g2, site, last, codec, opts, menu>>

\* Any store of at most MaxStored rules, and two calls with any arguments.
ConcInit ==
    /\ p \in SubsetsUpTo(RuleUniverse, MaxStored)
    /\ \E s1, s2 \in Subjects, p1, p2 \in PermissionLists :
          conc = [store |-> p,
                  calls |-> <<NewCall(s1, p1), NewCall(s2, p2)>>]
    /\ g = SomeRoles
    /\ g2 = {<<SiteId, ResA>>}
    /\ site = SiteEmpty
    /\ last = NoOp
    /\ codec = NoCodec
    /\ opts = NoOpts
    /\ menu = NoMenu

ConcNext ==
    \E i \in Callers : ReadOldRules(i) \/ RemoveOldRules(i) \/ AddNewRules(i)

SpecConc == ConcInit /\ [][ConcNext]_vars

(* ---------------- concurrent casbin_update_subject_roles --------------- *)

\* Two calls of the role handler: each gives way at its awaits, as above.
NewRolesCall(subject, role_keys) ==
    [pc |-> "start", subject |-> subject, role_keys |-> role_keys, new_roles |-> {}]

\* new_roles, and await enforcer.delete_roles_for_user(subject)
DeleteRoles(i) ==
    /\ conc.calls[i].pc = "start"
    /\ LET c == conc.calls[i]
           new_roles == RolesNewRoles(c.subject, c.role_keys)
       IN /\ g' = RolesDeleted(g, c.subject)
          /\ conc' = [conc EXCEPT !.calls[i] =
                        [c EXCEPT !.pc = RolesAfterDelete(new_roles),
                                  !.new_roles = new_roles]]
    /\ UNCHANGED <<p, g2, site, last, codec, opts, menu>>

\* await enforcer.add_grouping_policies(new_roles)
AddRoles(i) ==
    /\ conc.calls[i].pc = "add"
    /\ g' = add_policies(g, conc.calls[i].new_roles)
    /\ conc' = [conc EXCEPT !.calls[i].pc = "done"]
    /\ UNCHANGED <<p, g2, site, last, codec, opts, menu>>

\* Any role edges, at most MaxStored of them, and two calls with any arguments.
ConcRolesInit ==
    /\ g \in SubsetsUpTo(RoleUniverse, MaxStored)
    /\ \E s1, s2 \in Subjects, k1, k2 \in RoleKeys :
          conc = [store |-> g,
                  calls |-> <<NewRolesCall(s1, k1), NewRolesCall(s2, k2)>>]
    /\ p = SomeRules
    /\ g2 = {<<SiteId, ResA>>}
    /\ site = SiteEmpty
    /\ last = NoOp
    /\ codec = NoCodec
    /\ opts = NoOpts
    /\ menu = NoMenu

ConcRolesNext == \E i \in Callers : DeleteRoles(i) \/ AddRoles(i)

SpecConcRoles == ConcRolesInit /\ [][ConcRolesNext]_vars

(* ---------- concurrent casbin_update_subject_field_permissions --------- *)

NewFieldCall(subject, permission, field_policy_matrix) ==
    [pc |-> "start", subject |-> subject, permission |-> permission,
     field_policy_matrix |-> field_policy_matrix, add_rules |-> {}]

\* if not field_policy_matrix: return; else
\* await enforcer.remove_filtered_policy(0, subject, v1, v2, "", "")
RemoveFieldRules(i) ==
    /\ conc.calls[i].pc = "start"
    /\ LET c == conc.calls[i]
       IN IF NoMatrix(c.field_policy_matrix)
          THEN /\ p' = p
               /\ conc' = [conc EXCEPT !.calls[i].pc = "done"]
          ELSE LET add_rules == FieldAddRules(c.subject, c.field_policy_matrix)
               IN /\ p' = FieldRemoved(p, c.subject, c.permission)
                  /\ conc' = [conc EXCEPT !.calls[i] =
                                [c EXCEPT !.pc = FieldAfterRemove(add_rules),
                                          !.add_rules = add_rules]]
    /\ UNCHANGED <<g, g2, site, last, codec, opts, menu>>

\* await enforcer.add_policies(add_rules)
AddFieldRules(i) ==
    /\ conc.calls[i].pc = "add"
    /\ p' = add_policies(p, conc.calls[i].add_rules)
    /\ conc' = [conc EXCEPT !.calls[i].pc = "done"]
    /\ UNCHANGED <<g, g2, site, last, codec, opts, menu>>

\* The matrices of the two calls: none, the empty list, or three lists of at
\* most one row, the fewest with which two calls write the same field.
OneRowMatrices == {m \in Matrices : NoMatrix(m) \/ Len(m[1]) <= 1}

\* Any store of at most MaxStored field rules, and two calls.
ConcFieldInit ==
    /\ p \in SubsetsUpTo(FieldRuleUniverse, MaxStored)
    /\ \E s1, s2 \in Subjects, k1, k2 \in PageKeys, m1, m2 \in OneRowMatrices :
          conc = [store |-> p,
                  calls |-> <<NewFieldCall(s1, k1, m1), NewFieldCall(s2, k2, m2)>>]
    /\ g = SomeRoles
    /\ g2 = {<<SiteId, ResA>>}
    /\ site = SiteEmpty
    /\ last = NoOp
    /\ codec = NoCodec
    /\ opts = NoOpts
    /\ menu = NoMenu

ConcFieldNext == \E i \in Callers : RemoveFieldRules(i) \/ AddFieldRules(i)

SpecConcField == ConcFieldInit /\ [][ConcFieldNext]_vars

(* ---------------- concurrent casbin_update_site_grouping --------------- *)

NewSiteCall == [pc |-> "start", remove_rules |-> {}, add_rules |-> {}]

\* await enforcer.get_filtered_named_grouping_policy("g2", 0), and the batches
ReadSiteEdges(i) ==
    /\ conc.calls[i].pc = "start"
    /\ LET old_roles == SiteOldRoles(g2)
           new_roles == SiteNewRoles(site)
           remove_roles == RemoveRules(old_roles, new_roles)
           add_roles == AddRules(old_roles, new_roles)
       IN conc' = [conc EXCEPT !.calls[i] =
                     [pc |-> SiteAfterRead(remove_roles, add_roles),
                      remove_rules |-> remove_roles,
                      add_rules |-> add_roles]]
    /\ UNCHANGED <<p, g, g2, site, last, codec, opts, menu>>

\* await enforcer.remove_named_grouping_policies("g2", remove_roles)
RemoveSiteEdges(i) ==
    /\ conc.calls[i].pc = "remove"
    /\ g2' = remove_policies(g2, conc.calls[i].remove_rules)
    /\ conc' = [conc EXCEPT !.calls[i].pc = SiteAfterRemove(conc.calls[i].add_rules)]
    /\ UNCHANGED <<p, g, site, last, codec, opts, menu>>

\* await enforcer.add_named_grouping_policies("g2", add_roles)
AddSiteEdges(i) ==
    /\ conc.calls[i].pc = "add"
    /\ g2' = add_policies(g2, conc.calls[i].add_rules)
    /\ conc' = [conc EXCEPT !.calls[i].pc = "done"]
    /\ UNCHANGED <<p, g, site, last, codec, opts, menu>>

\* Any resource edges, at most MaxStored of them, any hierarchy, and two calls.
ConcSiteInit ==
    /\ g2 \in SubsetsUpTo(EdgeUniverse, MaxStored)
    /\ site \in Sites
    /\ conc = [store |-> g2, calls |-> <<NewSiteCall, NewSiteCall>>]
    /\ p = SomeRules
    /\ g = SomeRoles
    /\ last = NoOp
    /\ codec = NoCodec
    /\ opts = NoOpts
    /\ menu = NoMenu

ConcSiteNext ==
    \E i \in Callers : ReadSiteEdges(i) \/ RemoveSiteEdges(i) \/ AddSiteEdges(i)

SpecConcSite == ConcSiteInit /\ [][ConcSiteNext]_vars

(* ------------------------ get_admin_action_options --------------------- *)

\* An admin as get_admin_action_options reads it: its unique_id, its class
\* ("page": a PageSchemaAdmin, "action": a BaseActionAdmin, "model": a
\* ModelAdmin, "form": a FormAdmin, "group": an AdminGroup), whether it has a
\* page_schema, the page_schema's sort, the names of its
\* registered_admin_actions and, for a group, the admins it iterates over.
PageAdmin(unique_id, class, page_schema, sort, actions, children) ==
    [unique_id |-> unique_id, class |-> class, page_schema |-> page_schema,
     sort |-> sort, actions |-> actions, children |-> children]

\* page_schema.sort: None, or a number
SortNone == [none |-> TRUE, n |-> 0]
SortOf(n) == [none |-> FALSE, n |-> n]
\* p["sort"] or 0
SortKey(option) == IF option.sort.none THEN 0 ELSE option.sort.n

\* casbin_permission_encode(admin.unique_id, f"admin:{name}", "page")
ActionValue(unique_id, name) ==
    casbin_permission_encode(<<unique_id, AdminPrefix \o name, Page>>)

NameList == <<"l", "i", "s", "t">>
NameFilter == <<"f", "i", "l", "t", "e", "r">>
NameSubmit == <<"s", "u", "b", "m", "i", "t">>

\* The names of the children of a BaseActionAdmin's item, in order: list and
\* filter of a ModelAdmin, submit of a FormAdmin that registers no submit,
\* then the registered actions.
ActionNames(admin) ==
    (IF admin.class = "model" THEN <<NameList, NameFilter>>
     ELSE IF admin.class = "form" /\ NameSubmit \notin ToSet(admin.actions)
          THEN <<NameSubmit>>
          ELSE <<>>)
    \o admin.actions

\* The item of an admin: label, value and sort, no children yet.
Item(admin) ==
    [kind |-> "dict", value |-> ActionValue(admin.unique_id, Page),
     children |-> NoChildren, sort |-> admin.sort]

RECURSIVE AppendActions(_, _, _, _)
\* item["children"].append({...}) for each name, children the list's address
AppendActions(heap, children, unique_id, names) ==
    IF names = <<>> THEN heap
    ELSE LET child == NewAddr(heap)
             made == (child :> Dict(ActionValue(unique_id, Head(names)), NoChildren))
                     @@ heap
         IN AppendActions([made EXCEPT ![children].items = Append(@, child)],
                          children, unique_id, Tail(names))

RECURSIVE SortOptions(_, _)
\* options.sort(key=lambda p: p["sort"] or 0, reverse=True): by insertion,
\* an item going behind those whose key is not smaller.
SortOptions(heap, items) ==
    IF items = <<>> THEN <<>>
    ELSE LET sorted == SortOptions(heap, SubSeq(items, 1, Len(items) - 1))
             item == items[Len(items)]
             ahead == {i \in DOMAIN sorted :
                          SortKey(heap[sorted[i]]) >= SortKey(heap[item])}
             k == Cardinality({i \in DOMAIN sorted :
                                  \E j \in ahead : i <= j})
         IN SubSeq(sorted, 1, k) \o <<item>> \o SubSeq(sorted, k + 1, Len(sorted))

RECURSIVE get_admin_action_options(_, _, _, _)
RECURSIVE OptionsLoop(_, _, _, _, _)

\* The loop over the admins still to visit: options is the address of the
\* list the items are appended to, cached the lru_cache.
OptionsLoop(panel, heap, cached, admins, options) ==
    IF admins = <<>> THEN [heap |-> heap, cached |-> cached]
    ELSE LET admin == panel[Head(admins)]
         IN IF ~admin.page_schema
            THEN OptionsLoop(panel, heap, cached, Tail(admins), options)
            ELSE LET item == NewAddr(heap)
                     made == (item :> Item(admin)) @@ heap
                     children == NewAddr(made)
                     listed == AppendActions(
                                  [((children :> List(<<>>)) @@ made)
                                      EXCEPT ![item].children = children],
                                  children, admin.unique_id, ActionNames(admin))
                     sub == get_admin_action_options(panel, made, cached, Head(admins))
                     filled ==
                         IF admin.class \in {"action", "model", "form"}
                         THEN [heap |-> listed, cached |-> cached]
                         ELSE IF admin.class = "group"
                         THEN [heap |-> [sub.heap EXCEPT ![item].children = sub.result],
                               cached |-> sub.cached]
                         ELSE [heap |-> made, cached |-> cached]
                     appended ==
                         [filled.heap EXCEPT ![options].items = Append(@, item)]
                 IN OptionsLoop(panel, appended, filled.cached, Tail(admins), options)

\* @lru_cache() get_admin_action_options(group): the cached list when the
\* group was seen before, else a new list, built, sorted and cached.
get_admin_action_options(panel, heap, cached, group) ==
    IF group \in DOMAIN cached
    THEN [heap |-> heap, cached |-> cached, result |-> cached[group]]
    ELSE LET options == NewAddr(heap)
             built == OptionsLoop(panel, (options :> List(<<>>)) @@ heap, cached,
                                  panel[group].children, options)
             items == built.heap[options].items
             sorted == IF items # <<>>
                       THEN [built.heap EXCEPT
                                ![options].items = SortOptions(built.heap, items)]
                       ELSE built.heap
         IN [heap |-> sorted, cached |-> (group :> options) @@ built.cached,
             result |-> options]

(* ------------------ get_admin_action_options_by_subject ---------------- *)

\* enforcer.enforce(subject, v1, v2, v3): the request is allowed when an
\* allow rule of the subject matches it and no deny rule of the subject does.
Enforce(policy, subject, values) ==
    /\ <<subject>> \o values \o <<Allow>> \in policy
    /\ <<subject>> \o values \o <<Deny>> \notin policy

\* An enforce that allows everything.
casbin_permission_enforce_all(policy, subject, permission) == TRUE

\* values = casbin_permission_decode(permission)
\* return enforcer.enforce(subject, *values)
casbin_permission_enforce(policy, subject, permission) ==
    Enforce(policy, subject, casbin_permission_decode(permission))

\* "u:" + SystemUserEnum.ROOT
RootUser == <<"u", ":", "r", "o", "o", "t">>

\* The values of the option dicts of a heap.
HeapValues(heap) == {heap[a].value : a \in {b \in DOMAIN heap : heap[b].kind = "dict"}}

\* lambda item: casbin_permission_enforce(enforcer, subject, item["value"]),
\* as the set of the values it accepts
EnforcedValues(heap, policy, subject) ==
    {v \in HeapValues(heap) : casbin_permission_enforce(policy, subject, v)}

\* options = get_admin_action_options(group)
\* if subject != "u:" + SystemUserEnum.ROOT:
\*     options = filter_options(options, filter_func=lambda item: ...)
get_admin_action_options_by_subject(panel, heap, cached, policy, subject, group) ==
    LET built == get_admin_action_options(panel, heap, cached, group)
        run == filter_options(built.heap, built.result,
                              EnforcedValues(built.heap, policy, subject))
    IN IF subject # RootUser
       THEN [heap |-> run.heap, cached |-> built.cached, result |-> run.result]
       ELSE built

\* The objects that are still referred to: those reachable from the lists.
Keep(heap, lists) ==
    [a \in UNION {Reach(heap, l) : l \in lists} |-> heap[a]]

\* The lists the lru_cache holds.
CachedLists(cached) == {cached[group] : group \in DOMAIN cached}

\* What a group's first call returned: the list and the objects under it.
FirstOf(first, heap, cached) ==
    [group \in DOMAIN cached |->
        IF group \in DOMAIN first THEN first[group]
        ELSE [result |-> cached[group], objects |-> Keep(heap, {cached[group]})]]

\* The admin hierarchies: a site with an action admin and a sub-group that
\* holds a form; a site with an admin without page_schema, a model admin
\* without sort and a plain page sorted first; a site with an action admin
\* without actions and a form that registers its submit.
PanelGroups ==
    <<PageAdmin(<<"S">>, "group", TRUE, SortNone, <<>>, <<2, 3>>),
      PageAdmin(<<"A">>, "action", TRUE, SortOf(0), <<<<"x">>>>, <<>>),
      PageAdmin(<<"G">>, "group", TRUE, SortOf(1), <<>>, <<4>>),
      PageAdmin(<<"F">>, "form", TRUE, SortOf(0), <<>>, <<>>)>>
PanelPages ==
    <<PageAdmin(<<"S">>, "group", TRUE, SortNone, <<>>, <<2, 3, 4>>),
      PageAdmin(<<"H">>, "page", FALSE, SortOf(1), <<>>, <<>>),
      PageAdmin(<<"A">>, "model", TRUE, SortNone, <<>>, <<>>),
      PageAdmin(<<"B">>, "page", TRUE, SortOf(1), <<>>, <<>>)>>
PanelEmpty ==
    <<PageAdmin(<<"S">>, "group", TRUE, SortNone, <<>>, <<2, 3>>),
      PageAdmin(<<"A">>, "action", TRUE, SortOf(0), <<>>, <<>>),
      PageAdmin(<<"F">>, "form", TRUE, SortOf(0), <<NameSubmit>>, <<>>)>>
Panels == {PanelGroups, PanelPages, PanelEmpty}

\* The groups of a hierarchy, and the values of all its options.
GroupsOf(panel) == {a \in DOMAIN panel : panel[a].class = "group"}
PanelValues(panel) ==
    UNION {{ActionValue(panel[a].unique_id, Page)}
           \cup {ActionValue(panel[a].unique_id, ActionNames(panel[a])[i]) :
                    i \in DOMAIN ActionNames(panel[a])} :
           a \in DOMAIN panel}

\* The rules the store may hold: the user allowed an option, the user denied
\* the page of A, the role allowed the page of A.
PanelRules(panel) ==
    {Rule(UserX, v, Allow) : v \in PanelValues(panel)}
    \cup {Rule(UserX, ActionValue(<<"A">>, Page), Deny),
          Rule(RoleA, ActionValue(<<"A">>, Page), Allow)}

\* A hierarchy, nothing cached yet, and a store of at most MaxStored rules.
MenuInit ==
    /\ \E panel \in Panels :
          /\ menu = [op |-> "start", panel |-> panel, heap |-> <<>>, cached |-> <<>>,
                     first |-> <<>>, args |-> <<>>, result |-> 0,
                     hit |-> FALSE, filtered |-> FALSE]
          /\ p \in SubsetsUpTo(PanelRules(panel), MaxStored)
    /\ g = {} /\ g2 = {}
    /\ site = NoSite
    /\ last = NoOp
    /\ codec = NoCodec
    /\ opts = NoOpts
    /\ conc = NoConc

\* The state after a call that returned run: the objects no longer referred
\* to are gone, the first results of the newly cached groups are kept.
AfterCall(op, args, run, filtered) ==
    [op |-> op, panel |-> menu.panel,
     heap |-> Keep(run.heap, CachedLists(run.cached) \cup {run.result}),
     cached |-> run.cached,
     first |-> FirstOf(menu.first, run.heap, run.cached),
     args |-> args, result |-> run.result,
     hit |-> args[Len(args)] \in DOMAIN menu.cached,
     filtered |-> filtered]

\* The heap a call starts on: the caller has let go of the last result, the
\* lru_cache holds its lists.
Held == Keep(menu.heap, CachedLists(menu.cached))

\* get_admin_action_options(group)
GetAdminActionOptions ==
    /\ menu.op # "none"
    /\ \E group \in GroupsOf(menu.panel) :
          menu' = AfterCall("get_admin_action_options", <<group>>,
                            get_admin_action_options(menu.panel, Held,
                                                     menu.cached, group),
                            menu.filtered)
    /\ UNCHANGED <<p, g, g2, site, last, codec, opts, conc>>

\* filter_options(options, filter_func) on a tree the builder returned
FilterCachedOptions ==
    /\ menu.op # "none"
    /\ \E group \in DOMAIN menu.cached, accept \in SUBSET HeapValues(Held) :
          menu' = AfterCall("filter_options", <<accept, group>>,
                            filter_options(Held, menu.cached[group], accept)
                                @@ [cached |-> menu.cached],
                            TRUE)
    /\ UNCHANGED <<p, g, g2, site, last, codec, opts, conc>>

\* get_admin_action_options_by_subject(enforcer, subject, group)
GetAdminActionOptionsBySubject ==
    /\ menu.op # "none"
    /\ \E subject \in Subjects \cup {RootUser}, group \in GroupsOf(menu.panel) :
          menu' = AfterCall("get_admin_action_options_by_subject", <<subject, group>>,
                            get_admin_action_options_by_subject(
                                menu.panel, Held, menu.cached, p, subject, group),
                            menu.filtered \/ subject # RootUser)
    /\ UNCHANGED <<p, g, g2, site, last, codec, opts, conc>>

MenuNext ==
    GetAdminActionOptions \/ FilterCachedOptions \/ GetAdminActionOptionsBySubject

SpecMenu == MenuInit /\ [][MenuNext]_vars

(* =============================== claims ================================ *)

\* The last handler called was op and it has returned.
Returned(op) == last.op = op /\ last.pc = "done"

\* The rules of the write call api among calls (none: the empty set).
CallRules(calls, api) ==
    UNION {calls[i].rules : i \in {j \in DOMAIN calls : calls[j].api = api}}

\* The page-level permission keys as fields.
PageKeyFields == {<<ResA, AdminPrefix \o <<"v">>, Page>>, <<ResA, PagePrefix \o <<"v">>, Page>>}

\* The page rules a permission list asks for: (subject, resource, action,
\* "page", "allow") of every resource#action#page in the list.
DesiredPageRules(subject, permissions) ==
    {<<subject, f[1], f[2], Page, Allow>> :
        f \in {f \in PageKeyFields :
                 \E i \in DOMAIN permissions :
                    permissions[i] = f[1] \o <<Hash>> \o f[2] \o <<Hash>> \o f[3]}}

\* The stored rules matching (subject, *, *, "page").
StoredPageRules(subject) == {r \in p : r[1] = subject /\ Len(r) >= 4 /\ r[4] = Page}

\* C1: after casbin_update_subject_permissions(subject, P) has run, the stored
\* rules matching (subject, *, *, "page") are exactly the allow rules of the
\* keys of P: a page rule that denied, or whose key is not in P, is gone.
C1_PageRulesReconciled ==
    Returned("update_subject_permissions") =>
        StoredPageRules(last.args[1]) = DesiredPageRules(last.args[1], last.args[2])

\* C1 witness: a run that found a deny rule for a key of P and an allow rule
\* for a key not in P.
C1_Witness ==
    /\ Returned("update_subject_permissions")
    /\ \E r \in last.old :
          r[5] = Deny /\ <<r[1], r[2], r[3], r[4], Allow>> \in p
    /\ \E r \in last.old : r[5] = Allow /\ r \notin p

\* The admins get_admin_grouping walks: those below the root with no admin
\* that is its own app on the way from the root to them, themselves included.
RECURSIVE Walked(_, _)
Walked(tree, n) ==
    /\ n # tree.root
    /\ tree.nodes[n].app # n
    /\ \E q \in DOMAIN tree.nodes :
          /\ \E i \in DOMAIN tree.nodes[q].children : tree.nodes[q].children[i] = n
          /\ (q = tree.root \/ Walked(tree, q))

\* The (owning-application-id, node-id) pairs of the walked admins.
DerivedEdges(tree) ==
    {<<tree.nodes[tree.nodes[n].app].unique_id, tree.nodes[n].unique_id>> :
        n \in {m \in DOMAIN tree.nodes : Walked(tree, m)}}

\* C3: after casbin_update_site_grouping has run, the "g2" edges are exactly
\* the (owning-application-id, node-id) pairs of the hierarchy, sub-groups
\* included; the stale edges were removed, the missing ones added, and no
\* call named an edge that was already right.
C3_SiteGroupingConverges ==
    Returned("update_site_grouping") =>
        /\ g2 = DerivedEdges(site)
        /\ CallRules(last.calls, "remove_named_grouping_policies")
              = last.old \ DerivedEdges(site)
        /\ CallRules(last.calls, "add_named_grouping_policies")
              = DerivedEdges(site) \ last.old
        /\ \A i \in DOMAIN last.calls :
              last.calls[i].rules \cap (last.old \cap DerivedEdges(site)) = {}

\* C3 witness: a run over the nested hierarchy that found a stale edge, a
\* right edge and a missing edge of a sub-group.
C3_Witness ==
    /\ Returned("update_site_grouping")
    /\ site = SiteNested
    /\ <<ResB, ResA>> \in last.old
    /\ <<SiteId, ResA>> \in last.old
    /\ <<AppId, ResB>> \in g2 \ last.old

\* The desired set of the last reconciliation, as the handler computes it.
LastNew ==
    IF last.op = "update_subject_permissions"
    THEN PermNewRules(last.args[1], last.args[2])
    ELSE SiteNewRoles(site)

IsRemoveApi(api) == api \in {"remove_policies", "remove_named_grouping_policies"}
LastRemoved == UNION {last.calls[i].rules : i \in {j \in DOMAIN last.calls : IsRemoveApi(last.calls[j].api)}}
LastAdded == UNION {last.calls[i].rules : i \in {j \in DOMAIN last.calls : ~IsRemoveApi(last.calls[j].api)}}

\* C10: page-permission reconciliation and hierarchy synchronisation issue
\* remove = old \ new and add = new \ old, so (old \ remove) + add = new and
\* the batches are disjoint; no call carries an empty batch; a store that
\* already holds the desired set gets no write call, and neither does the
\* second of two same reconciliations in a row.
C10_ReconciliationMinimal ==
    (/\ last.op \in {"update_subject_permissions", "update_site_grouping"}
     /\ last.pc = "done") =>
        /\ LastRemoved = last.old \ LastNew
        /\ LastAdded = LastNew \ last.old
        /\ (last.old \ LastRemoved) \cup LastAdded = LastNew
        /\ LastRemoved \cap LastAdded = {}
        /\ \A i \in DOMAIN last.calls : last.calls[i].rules # {}
        /\ Len(last.calls) <= 2
        /\ (last.old = LastNew => last.calls = <<>>)
        /\ (last.repeat => last.calls = <<>>)

\* C10 witness: the second of two same page-permission reconciliations, the
\* first of which removed and added rules.
C10_Witness ==
    /\ Returned("update_subject_permissions")
    /\ last.repeat
    /\ Len(last.first_calls) = 2
    /\ last.calls = <<>>

\* C10 second witness: the same for the hierarchy synchronisation.
C10_WitnessSite ==
    /\ Returned("update_site_grouping")
    /\ last.repeat
    /\ Len(last.first_calls) = 2

\* The items of a comma-separated string: its longest stretches without a
\* comma, the empty ones left out.
RoleItems(role_keys) ==
    {SubSeq(role_keys, i, j) : i \in DOMAIN role_keys, j \in DOMAIN role_keys} \cap
    {SubSeq(role_keys, i, j) :
        <<i, j>> \in {ij \in (DOMAIN role_keys) \X (DOMAIN role_keys) :
            /\ ij[1] <= ij[2]
            /\ \A k \in ij[1]..ij[2] : role_keys[k] # Comma
            /\ (ij[1] = 1 \/ role_keys[ij[1] - 1] = Comma)
            /\ (ij[2] = Len(role_keys) \/ role_keys[ij[2] + 1] = Comma)}}

\* C2: after casbin_update_subject_roles(subject, role_keys) has run, the
\* subject's role edges are exactly (subject, "r:" + role) of the non-empty
\* items of role_keys with "r:" + role other than the subject: every prior
\* edge of the subject outside that set is gone.
C2_RolesReplaced ==
    Returned("update_subject_roles") =>
        {e \in g : e[1] = last.args[1]}
          = {<<last.args[1], RolePrefix \o role>> :
                role \in {r \in RoleItems(last.args[2]) :
                             RolePrefix \o r # last.args[1]}}

\* C2 witness: the user held {r:a, r:b} and asked for "a,aa": r:b is gone,
\* r:a stays, r:aa is new.
C2_Witness ==
    /\ Returned("update_subject_roles")
    /\ last.args = <<UserX, <<"a", Comma, "a", "a">>>>
    /\ last.old = {<<UserX, RoleA>>, <<UserX, RoleB>>}
    /\ {e \in g : e[1] = UserX} = {<<UserX, RoleA>>, <<UserX, RoleAA>>}

\* The checked flags of row i in the three lists of a matrix.
CheckedIn(matrix, i) == {c \in 1..3 : matrix[c][i].checked}

\* C4: casbin_get_subject_field_policy_matrix returns, for N row records
\* with whatever fields, three lists of N rows each, and at every index
\* exactly one of the three has checked = true.  (The code lets a row's own
\* checked field overwrite the flag in all three lists.)
C4_ExactlyOneChecked ==
    last.op = "get_subject_field_policy_matrix" =>
        LET rows == last.args[3]
            matrix == last.result
        IN /\ Len(matrix) = 3
           /\ \A c \in 1..3 : Len(matrix[c]) = Len(rows)
           /\ \A i \in DOMAIN rows : Cardinality(CheckedIn(matrix, i)) = 1

\* The fields of the permission keys of the model.
KnownFields ==
    PageKeyFields \cup {<<ResA, PagePrefix \o <<"v">>, <<"f">>>>,
                        <<ResA, PagePrefix \o <<"v">>, <<"g">>>>,
                        <<ResB, PagePrefix \o <<"v">>, <<"f">>>>}
FieldsOf(key) ==
    CHOOSE f \in KnownFields : key = f[1] \o <<Hash>> \o f[2] \o <<Hash>> \o f[3]

\* v2 with a leading "admin:" rewritten to "page:".
Rewritten(v2) ==
    IF SubSeq(v2, 1, 6) = AdminPrefix
    THEN PagePrefix \o SubSeq(v2, 7, Len(v2))
    ELSE v2

\* C5: casbin_update_subject_field_permissions issues no store call without
\* a matrix; otherwise the store becomes the store before, minus every rule
\* matching (subject, v1, v2', *, *), plus an allow rule for every row
\* checked in the allow list and a deny rule for every row checked in the
\* deny list, and nothing for the default list and the unchecked rows.
C5_FieldWritePath ==
    Returned("update_subject_field_permissions") =>
        LET subject == last.args[1]
            v == FieldsOf(last.args[2])
            matrix == last.args[3]
        IN IF matrix = None \/ matrix = <<>>
           THEN last.calls = <<>> /\ p = last.before
           ELSE p = (last.before \ {r \in last.before :
                                       /\ r[1] = subject
                                       /\ r[2] = v[1]
                                       /\ r[3] = Rewritten(v[2])})
                    \cup {<<subject>> \o FieldsOf(matrix[2][i].rol) \o <<Allow>> :
                            i \in {j \in DOMAIN matrix[2] : matrix[2][j].checked}}
                    \cup {<<subject>> \o FieldsOf(matrix[3][i].rol) \o <<Deny>> :
                            i \in {j \in DOMAIN matrix[3] : matrix[3][j].checked}}

\* C5 witness: a write of two rows, one checked in the allow list and one in
\* the deny list, that removed a stored rule and added an allow and a deny
\* rule.
C5_Witness ==
    /\ Returned("update_subject_field_permissions")
    /\ last.args[3] # None
    /\ Len(last.args[3]) = 3
    /\ Len(last.args[3][1]) = 2
    /\ last.before \ p # {}
    /\ \E r \in p \ last.before : r[5] = Allow
    /\ \E r \in p \ last.before : r[5] = Deny
    /\ Len(last.calls) = 2

\* The fields are strings (not None) without the delimiter.
PlainFields(fields) ==
    \A i \in DOMAIN fields :
        fields[i] # None /\ \A k \in DOMAIN fields[i] : fields[i][k] # Hash

\* C6 as stated: decode(encode(fields)) = fields for every sequence of
\* non-null fields without '#', of any length, empty strings included.
C6_RoundTripAnyFields ==
    (codec.pc = "decoded" /\ PlainFields(codec.fields)) =>
        codec.decoded = codec.fields

\* C6 amended: decode(encode(fields)) = fields for every non-empty sequence
\* of non-null fields without '#' whose first and last fields are not empty.
C6_RoundTrip ==
    (/\ codec.pc = "decoded"
     /\ PlainFields(codec.fields)
     /\ codec.fields # <<>>
     /\ codec.fields[1] # <<>>
     /\ codec.fields[Len(codec.fields)] # <<>>) =>
        codec.decoded = codec.fields

\* C6 witness: three fields, the middle one empty, decoded back.
C6_Witness ==
    /\ codec.pc = "decoded"
    /\ codec.fields = <<<<"a">>, <<>>, <<"a", "a">>>>
    /\ codec.encoded = <<"a", Hash, Hash, "a", "a">>
    /\ codec.decoded = codec.fields

\* The nodes of src that filter_options is to keep: those whose value the
\* predicate accepts and whose ancestors' values it accepts.
Accepted(i) == opts.src[i].value \in opts.accept
KeptNode(i) ==
    /\ Accepted(i)
    /\ \A j \in 1..(i - 1) : Below(opts.src, j, i) => Accepted(j)
KeptSource ==
    LET kept == Ascending({i \in 1..Len(opts.src) : KeptNode(i)})
    IN [k \in 1..Len(kept) |-> opts.src[kept[k]]]

\* C7: the tree filter_options returns is, level by level and in the input's
\* order, the input's nodes whose predicate holds and whose ancestors'
\* predicates hold; a kept node keeps its children list even when it is left
\* empty, a node whose predicate fails goes with its whole subtree.
C7_FilterKeepsAcceptedInOrder ==
    opts.pc = "filtered" => Preorder(opts.heap, opts.result, 0) = KeptSource

\* A kept node all of whose children were filtered out, and a dropped node
\* that had an accepted child.
C7_Witness ==
    /\ opts.pc = "filtered"
    /\ \E i \in 1..Len(opts.src) :
          /\ KeptNode(i)
          /\ ChildrenOf(opts.src, i) # <<>>
          /\ \A j \in 1..Len(opts.src) : Below(opts.src, i, j) => ~KeptNode(j)
    /\ \E i \in 1..Len(opts.src) :
          /\ ~Accepted(i)
          /\ \E j \in 1..Len(opts.src) : Below(opts.src, i, j) /\ Accepted(j)

\* C8: filter_options leaves the input tree as it was, the returned tree
\* shares no dict and no list with it, and a change made to the returned tree
\* leaves every dict and list of the input tree as it was.
C8_CopyOnWrite ==
    opts.pc \in {"filtered", "mutated"} =>
        /\ \A a \in DOMAIN opts.before : opts.heap[a] = opts.before[a]
        /\ opts.pc = "filtered" =>
              Reach(opts.heap, opts.result) \cap DOMAIN opts.before = {}

\* C9: no node of the tree filter_options returns has an empty children list.
C9_NoEmptyChildren ==
    opts.pc = "filtered" =>
        \A d \in Reach(opts.heap, opts.result) :
            (opts.heap[d].kind = "dict" /\ opts.heap[d].children # NoChildren)
                => opts.heap[opts.heap[d].children].items # <<>>

\* C11: casbin_update_subject_roles never adds the edge of a subject to
\* itself, and, from a store without such edges, no edge (s, s) is in "g"
\* after any sequence of role reconciliations.
C11_NoSelfRole ==
    /\ \A e \in g : e[1] # e[2]
    /\ last.op = "update_subject_roles" =>
          \A i \in DOMAIN last.calls :
              last.calls[i].api = "add_grouping_policies" =>
                  <<last.args[1], last.args[1]>> \notin last.calls[i].rules

\* C11 witness: the role r:a asked for "a,aa": r:aa is added, r:a is not.
C11_Witness ==
    /\ Returned("update_subject_roles")
    /\ last.args = <<RoleA, <<"a", Comma, "a", "a">>>>
    /\ <<RoleA, RoleAA>> \in g
    /\ <<RoleA, RoleA>> \notin g

\* C12: when casbin_update_subject_permissions has issued its remove batch,
\* no rule of the batch is left in the store, whether or not another call
\* had removed some rule of the batch since the old rules were read.
C12_TolerantBatchRemoval ==
    \A i \in DOMAIN conc.calls :
        conc.calls[i].pc \in {"add", "done"} =>
            conc.calls[i].remove_rules \cap conc.calls[i].removed = {}

\* Both calls are for one subject and have completed.
BothDoneFor(subject) ==
    /\ DOMAIN conc.calls = Callers
    /\ \A i \in Callers : conc.calls[i].pc = "done" /\ conc.calls[i].subject = subject

\* The calls ran one after the other, call i the later one: it read the old
\* rules when the other had completed, and the other read them when call i
\* had not started.
LaterOfSerial(i) ==
    /\ conc.calls[i].saw = "done"
    /\ conc.calls[Other(i)].saw = "start"

\* What call i asked for.
DesiredOf(i) == DesiredPageRules(conc.calls[i].subject, conc.calls[i].permissions)

\* C13: two casbin_update_subject_permissions calls for one subject that run
\* one after the other leave exactly the page rules the later call asked
\* for.  (That calls which both read before either writes can leave a set
\* neither asked for, with a rule one of them asked for missing, is what
\* C13_Witness reaches.)
C13_SerialLeavesLaterDesired ==
    \A subject \in Subjects : \A i \in Callers :
        (BothDoneFor(subject) /\ LaterOfSerial(i))
            => StoredPageRules(subject) = DesiredOf(i)

\* C13 witness: both calls for one subject read the old rules before either
\* wrote, both have completed, the stored page rules are neither call's
\* desired set, and a rule one call asked for is not in the store.
C13_Witness ==
    \E subject \in Subjects :
        /\ BothDoneFor(subject)
        /\ \A i \in Callers : conc.calls[i].saw \in {"start", "remove", "add"}
        /\ \E i \in Callers : conc.calls[i].saw # "start"
        /\ \A i \in Callers : StoredPageRules(subject) # DesiredOf(i)
        /\ \E i \in Callers : DesiredOf(i) \ p # {}

\* The rules of the subject stored under (v1, v2), v2 after the rewrite of
\* "admin:" to "page:", whatever their other fields.
UnderPermission(policy, subject, permission) ==
    {r \in policy :
        /\ r[1] = subject
        /\ r[2] = casbin_permission_decode(permission)[1]
        /\ r[3] = Replace(casbin_permission_decode(permission)[2], AdminPrefix, PagePrefix)}

\* C15: casbin_update_subject_field_permissions with a matrix removes every
\* stored rule of the subject under (v1, v2 rewritten), whatever its other
\* fields: a page-level rule of the subject under that prefix is gone after
\* the write, though no row of the matrix names it.
C15_BlanketRemovalReachesPageRules ==
    (Returned("update_subject_field_permissions") /\ ~NoMatrix(last.args[3])) =>
        \A r \in UnderPermission(last.before, last.args[1], last.args[2]) :
            \/ r \notin p
            \/ r \in CallRules(last.calls, "add_policies")

\* C15 witness: the store held the page rule (u:x, A, page:v, page, allow),
\* the permission was A#admin:v#page, the matrix had a row for the field f,
\* and the page rule is gone.
C15_Witness ==
    /\ Returned("update_subject_field_permissions")
    /\ last.args[1] = UserX
    /\ last.args[2] = KeyAdminV
    /\ ~NoMatrix(last.args[3])
    /\ Len(last.args[3][1]) > 0
    /\ Rule(UserX, KeyPageV, Allow) \in last.before
    /\ Rule(UserX, KeyPageV, Allow) \notin p

\* The rules in one of two stores and not in the other.
Changed(before, after) == (before \ after) \cup (after \ before)

\* C16: casbin_update_subject_permissions(subject, P) adds and removes only
\* rules whose first field is the subject and whose domain field is "page":
\* the rules of other subjects and the subject's field-level rules stay, and
\* so does every edge of "g" and "g2".
C16_PermissionFrame ==
    [][last'.op = "update_subject_permissions" =>
          /\ \A r \in Changed(p, p') : r[1] = last'.args[1] /\ r[4] = Page
          /\ g' = g
          /\ g2' = g2]_vars

\* C16 witness: a reconciliation that changed the store while it held a
\* field-level rule of the subject and a rule of another subject.
C16_Witness ==
    /\ Returned("update_subject_permissions")
    /\ last.calls # <<>>
    /\ \E r \in p : r[1] = last.args[1] /\ r[4] # Page
    /\ \E r \in p : r[1] # last.args[1]

\* The read path has just been called after a write of the matrix
\* last.wrote, for the same subject, permission and rows (the rows carry no
\* checked field of their own).
ReadBack == last.op = "get_subject_field_policy_matrix" /\ last.wrote # <<>>

\* Every row's key is under (v1, v2) of the permission, v2 rewritten.
RowsUnderPermission ==
    \A i \in DOMAIN last.args[3] :
        LET f == casbin_permission_decode(last.args[3][i].rol)
            v == casbin_permission_decode(last.args[2])
        IN /\ Len(f) = 3
           /\ f[1] = v[1]
           /\ f[2] = Replace(v[2], AdminPrefix, PagePrefix)

\* No row of the written matrix is checked in both the allow and the deny list.
AtMostOneChecked ==
    \A i \in DOMAIN last.wrote[2] :
        ~(last.wrote[2][i].checked /\ last.wrote[3][i].checked)

\* The read gives every row back in the column it was written in.
ReadsAsWritten ==
    \A i \in DOMAIN last.args[3] :
        /\ last.result[2][i].checked = last.wrote[2][i].checked
        /\ last.result[3][i].checked = last.wrote[3][i].checked
        /\ last.result[1][i].checked =
              (~last.wrote[2][i].checked /\ ~last.wrote[3][i].checked)

\* C17 as stated: a matrix whose rows are each checked in at most one of the
\* allow and deny lists, written and read back for the same subject,
\* permission and rows, comes back as written.
C17_RoundTripAnyRows ==
    (ReadBack /\ RowsUnderPermission /\ AtMostOneChecked) => ReadsAsWritten

\* No two rows of the written matrix have the same key.
DistinctRows ==
    \A i, j \in DOMAIN last.args[3] :
        last.args[3][i].rol = last.args[3][j].rol => i = j

\* C17: a matrix whose rows have pairwise different keys under (v1, v2
\* rewritten) and are each checked in at most one of the allow and deny
\* lists, written and then read back for the same subject, permission and
\* rows, comes back as written: allow where allow was checked, deny where deny
\* was, default otherwise, whatever the store held before the write.
C17_RoundTrip ==
    (ReadBack /\ RowsUnderPermission /\ AtMostOneChecked /\ DistinctRows)
        => ReadsAsWritten

\* C17 witness: a read-back of a written matrix with a row checked in allow
\* and another checked in deny, over a store that held a deny rule for the
\* first row's key before the write.
C17_Witness ==
    /\ ReadBack /\ RowsUnderPermission /\ AtMostOneChecked /\ DistinctRows
    /\ \E i \in DOMAIN last.args[3] :
          /\ last.wrote[2][i].checked
          /\ last.result[2][i].checked
          /\ last.args[3][i].rol = KeyFieldF
    /\ \E i \in DOMAIN last.args[3] :
          /\ last.wrote[3][i].checked
          /\ last.result[3][i].checked
          /\ last.args[3][i].rol = KeyFieldG
    /\ last.args[1] = UserX
    /\ Rule(UserX, KeyFieldF, Deny) \in last.before
    /\ Rule(UserX, KeyFieldF, Deny) \notin p

\* Both calls have completed and are for different subjects.
BothDoneApart ==
    /\ DOMAIN conc.calls = Callers
    /\ \A i \in Callers : conc.calls[i].pc = "done"
    /\ conc.calls[1].subject # conc.calls[2].subject

\* The page rules of the two subjects in a store.
PageRulesOfCallers(policy) ==
    {r \in policy : r[4] = Page /\ \E i \in Callers : r[1] = conc.calls[i].subject}

\* C19: two casbin_update_subject_permissions calls for different subjects,
\* their store calls interleaved in any order, leave each subject with
\* exactly the page rules its call asked for, and the store that either
\* serial order leaves: the initial store with the two subjects' page rules
\* replaced by the desired ones.
C19_DistinctSubjectsIndependent ==
    BothDoneApart =>
        /\ \A i \in Callers : StoredPageRules(conc.calls[i].subject) = DesiredOf(i)
        /\ p = (conc.store \ PageRulesOfCallers(conc.store))
                   \cup DesiredOf(1) \cup DesiredOf(2)

\* C19 witness: the two calls, for different subjects, both read before
\* either wrote, each removed a rule and each added one.
C19_Witness ==
    /\ BothDoneApart
    /\ \A i \in Callers : conc.calls[i].saw \in {"start", "remove", "add"}
    /\ \E i \in Callers : conc.calls[i].saw # "start"
    /\ \A i \in Callers :
          conc.calls[i].remove_rules # {} /\ conc.calls[i].add_rules # {}

\* C14: on an unchanged hierarchy, whatever calls of
\* get_admin_action_options, filter_options and
\* get_admin_action_options_by_subject came before, every list and dict of
\* the tree a group's first get_admin_action_options call returned is as it
\* was then, and a call of get_admin_action_options returns a tree equal in
\* structure to the one the group's first call returned.
C14_CachedTreeStable ==
    menu.op \notin {"none", "start"} =>
        /\ \A group \in DOMAIN menu.first :
              \A a \in DOMAIN menu.first[group].objects :
                  /\ a \in DOMAIN menu.heap
                  /\ menu.heap[a] = menu.first[group].objects[a]
        /\ menu.op = "get_admin_action_options" =>
              Preorder(menu.heap, menu.result, 0)
                = Preorder(menu.first[menu.args[1]].objects,
                           menu.first[menu.args[1]].result, 0)

\* C14 witness: a call of get_admin_action_options that hit the cache after
\* a filter had run on the cached tree, the tree holding a node with children.
C14_Witness ==
    /\ menu.op = "get_admin_action_options"
    /\ menu.hit
    /\ menu.filtered
    /\ \E i \in DOMAIN Preorder(menu.heap, menu.result, 0) :
          Preorder(menu.heap, menu.result, 0)[i].depth > 0

\* The option dicts of the tree under a list.
OptionsUnder(heap, list) == {a \in Reach(heap, list) : heap[a].kind = "dict"}

\* C18: for a subject other than the root user, every node of the tree
\* get_admin_action_options_by_subject returns, at every depth, is one the
\* enforcer allows the subject (so every ancestor of a returned node is,
\* being returned too); for the root user the cached tree itself is returned,
\* unfiltered.
C18_OptionsAuthorised ==
    menu.op = "get_admin_action_options_by_subject" =>
        IF menu.args[1] # RootUser
        THEN \A d \in OptionsUnder(menu.heap, menu.result) :
                Enforce(p, menu.args[1], casbin_permission_decode(menu.heap[d].value))
        ELSE /\ menu.result = menu.cached[menu.args[2]]
             /\ Preorder(menu.heap, menu.result, 0)
                  = Preorder(menu.first[menu.args[2]].objects,
                             menu.first[menu.args[2]].result, 0)

\* C18 witness: the user is allowed the page of A and not its action x; the
\* tree returned for the site holds the page of A, without the action.
C18_Witness ==
    /\ menu.op = "get_admin_action_options_by_subject"
    /\ menu.args = <<UserX, 1>>
    /\ menu.panel = PanelGroups
    /\ {menu.heap[d].value : d \in OptionsUnder(menu.heap, menu.result)}
          = {ActionValue(<<"A">>, Page)}
    /\ ActionValue(<<"A">>, <<"x">>) \in HeapValues(menu.heap)

====
